---------------------------- MODULE Spec2Model ----------------------------
(***************************************************************************)
(* Model of the MSI custom actions of usbipd-win                           *)
(* (src/CustomActions/actions.cpp): log, require_reboot, get_property,     *)
(* InstallDrivers and UninstallDrivers.                                    *)
(*                                                                         *)
(* The installer engine invokes the two entry points one at a time.  Each  *)
(* entry point is modelled statement by statement; pc holds the source     *)
(* line the thread is about to execute ("I59" is line 59 of                *)
(* InstallDrivers, "U87" line 87 of UninstallDrivers, "R.." lines of       *)
(* require_reboot, "L.." lines of log).  The operating system and the      *)
(* installer engine are the environment: the outcome of every OS call is   *)
(* chosen nondeterministically.                                            *)
(***************************************************************************)
EXTENDS Integers, Sequences, FiniteSets, TLC

(***************************************************************************)
(* Bounds of the model.                                                    *)
(***************************************************************************)
MaxInvocations == 2     \* entry-point invocations in one installer session
MaxLen == 2             \* longest CustomActionData value, in characters

(***************************************************************************)
(* Program constants (Windows SDK values of the names the source uses).    *)
(***************************************************************************)
ERROR_SUCCESS == 0
ERROR_INVALID_HANDLE == 6
ERROR_OUTOFMEMORY == 14
ERROR_MORE_DATA == 234
ERROR_INSTALL_FAILURE == 1603
ERROR_ACCESS_DENIED == 5
ERROR_INVALID_FLAGS == 1004
DIIRFLAG_FORCE_INF == 2
NUL == 0

\* WCHAR codes a property value is made of: a path separator and a
\* non-ASCII letter.
Alphabet == {92, 233}

RECURSIVE StringsUpTo(_)
StringsUpTo(n) ==
    IF n = 0 THEN {<< >>}
    ELSE LET shorter == StringsUpTo(n - 1)
         IN  shorter \cup {Append(s, c) : s \in shorter, c \in Alphabet}

\* The values the installer may have stored in CustomActionData.  MSI has
\* no distinction between an unset property and an empty one: << >> is the
\* unset property.
PropertyValues == StringsUpTo(MaxLen)

\* Last-error codes a failing driver call may leave behind (two of the codes
\* DiInstallDriver documents).  Every DWORD of the model stays far below
\* 2^32, so no DWORD arithmetic wraps.
ErrCodes == {ERROR_ACCESS_DENIED, ERROR_INVALID_FLAGS}

\* What DiInstallDriver / DiUninstallDriver may do: the BOOL result, the
\* value left in *NeedReboot, and the thread's last error after a failure.
DriverOutcomes ==
    [ok : {TRUE}, reboot : BOOLEAN, err : {ERROR_SUCCESS}]
        \cup [ok : {FALSE}, reboot : BOOLEAN, err : ErrCodes]

VARIABLES
    pc,                 \* source line about to be executed, or "idle"
    retpc,              \* where log returns to
    entry,              \* entry point of the current / last invocation
    invocations,        \* invocations started so far in this session
    CustomActionData,   \* the installer property (session state)
    propStatus,         \* statuses the two MsiGetProperty queries returned
    data,               \* local: result of get_property
    request_reboot,     \* local of InstallDrivers
    need_reboot,        \* local of the current block
    lastError,          \* the thread's last-error value
    fmt,                \* log's parameter fmt
    arg,                \* log's variadic argument
    hRecord,            \* log's local hRecord
    created,            \* message records created in this invocation
    openRecords,        \* message record handles currently open
    closes,             \* handles passed to MsiCloseHandle, in order
    logCalls,           \* log calls completed in this invocation
    sink,               \* messages MsiProcessMessage received, in order
    drvCalls,           \* driver calls made in this invocation, in order
    atomAdds,           \* GlobalAddAtom calls made in this invocation
    atoms,              \* reference count of the global atom
    ret                 \* << status >> once the invocation has returned

vars == << pc, retpc, entry, invocations, CustomActionData, propStatus, data,
           request_reboot, need_reboot, lastError, fmt, arg, hRecord, created,
           openRecords, closes, logCalls, sink, drvCalls, atomAdds, atoms,
           ret >>

locals == << data, request_reboot, need_reboot, propStatus >>
logState == << fmt, arg, hRecord, created, openRecords, closes, logCalls,
               sink, retpc >>
session == << entry, invocations, CustomActionData >>

(***************************************************************************)
(* Formatting: what _vscwprintf / vswprintf_s produce for the formats the  *)
(* source uses.                                                            *)
(***************************************************************************)
HexDigits == << "0", "1", "2", "3", "4", "5", "6", "7",
                "8", "9", "a", "b", "c", "d", "e", "f" >>

\* %0<width>x : lower-case hexadecimal, zero-padded to at least width.
RECURSIVE HexPadded(_, _)
HexPadded(n, width) ==
    IF n = 0 /\ width <= 0 THEN ""
    ELSE HexPadded(n \div 16, width - 1) \o HexDigits[(n % 16) + 1]

\* A format string is its literal text followed by at most one conversion.
PlainFmt(text) == [lit |-> text, conv |-> ""]
HexFmt(text) == [lit |-> text, conv |-> "%08x"]

vswprintf(f, a) ==
    IF f.conv = "%08x" THEN f.lit \o HexPadded(a, 8)
    ELSE f.lit

\* actions.cpp:25
RecordText(f, a) == "CustomActions: " \o vswprintf(f, a)

(***************************************************************************)
(* get_property                                                            *)
(***************************************************************************)
\* MsiGetProperty(hInstall, name, buf, &size) on a buffer of cap characters:
\* the status, the buffer afterwards and the value left in size.  A property
\* value needs Len(stored) + 1 characters; the size reported never counts
\* the terminator.  fail is the engine rejecting the query.
MsiGetProperty(stored, buf, cap, fail) ==
    IF fail
      THEN [status |-> ERROR_INVALID_HANDLE, buf |-> buf, size |-> cap]
    ELSE IF Len(stored) >= cap
      THEN [status |-> ERROR_MORE_DATA,
            buf |-> [i \in 1..cap |->
                       IF i < cap THEN stored[i] ELSE NUL],
            size |-> Len(stored)]
    ELSE [status |-> ERROR_SUCCESS,
          buf |-> [i \in 1..cap |->
                     IF i <= Len(stored) THEN stored[i]
                     ELSE IF i = Len(stored) + 1 THEN NUL ELSE buf[i]],
          size |-> Len(stored)]

\* The statuses of the queries get_property makes, in order: one when the
\* first query makes it return, two otherwise.
PropertyQueries(stored, fail1, fail2) ==
    LET q1 == MsiGetProperty(stored, << >>, 0, fail1)
        valueSize == q1.size + 1
        value == [i \in 1..valueSize |-> NUL]
        q2 == MsiGetProperty(stored, value, valueSize, fail2)
    IN  IF q1.status # ERROR_MORE_DATA
          THEN << q1.status >>
          ELSE << q1.status, q2.status >>

\* Mutant of get_property: the size of the buffer, terminator included, is
\* used as the length of the result.
get_property_keeps_terminator(stored, fail1, fail2) ==
    LET q1 == MsiGetProperty(stored, << >>, 0, fail1)
        valueSize == q1.size + 1
        value == [i \in 1..valueSize |-> NUL]
        q2 == MsiGetProperty(stored, value, valueSize, fail2)
    IN  IF q1.status # ERROR_MORE_DATA THEN << >>
        ELSE IF q2.status # ERROR_SUCCESS THEN << >>
        ELSE SubSeq(q2.buf, 1, valueSize)

get_property(stored, fail1, fail2) ==
    LET q1 == MsiGetProperty(stored, << >>, 0, fail1)
        valueSize == q1.size + 1
        value == [i \in 1..valueSize |-> NUL]
        q2 == MsiGetProperty(stored, value, valueSize, fail2)
    IN  IF q1.status # ERROR_MORE_DATA THEN << >>
        ELSE IF q2.status # ERROR_SUCCESS THEN << >>
        ELSE SubSeq(q2.buf, 1, q2.size)

(***************************************************************************)
(* Helpers of the entry points.                                            *)
(***************************************************************************)
\* data + L"Drivers\\<Name>\\<Name>.inf": the payload root chosen at run
\* time followed by the literal the source appends.
InfPath(root, rel) == [root |-> root, rel |-> rel]

VBoxUSBMonInf == "Drivers\\VBoxUSBMon\\VBoxUSBMon.inf"
VBoxUSBInf == "Drivers\\VBoxUSB\\VBoxUSB.inf"

\* One driver call as the OS saw it, with what it answered.
DriverCall(fn, inf, flags, out) ==
    [fn |-> fn, inf |-> inf, flags |-> flags,
     ok |-> out.ok, reboot |-> out.reboot, err |-> out.err]

\* Mutant of OrAssign: the flag is overwritten instead of accumulated.
OrAssign_overwrites(lhs, rhs) == rhs

\* request_reboot |= need_reboot
OrAssign(lhs, rhs) == lhs \/ rhs

\* log(hInstall, f, a): the caller evaluates the arguments, then control
\* enters log at line 11 and comes back to returnTo.
CallLog(f, a, returnTo) ==
    /\ fmt' = f
    /\ arg' = a
    /\ retpc' = returnTo
    /\ pc' = "L11"
    /\ UNCHANGED << hRecord, created, openRecords, closes, logCalls, sink >>

\* What a new invocation starts from: nothing logged, called or returned.
BeginInvocation(name) ==
    /\ pc = "idle"
    /\ invocations < MaxInvocations
    /\ invocations' = invocations + 1
    /\ entry' = name
    /\ ret' = << >>
    /\ created' = 0
    /\ closes' = << >>
    /\ logCalls' = << >>
    /\ sink' = << >>
    /\ drvCalls' = << >>
    /\ atomAdds' = 0
    /\ hRecord' = 0
    /\ need_reboot' = FALSE
    /\ UNCHANGED << CustomActionData, openRecords, lastError, atoms, fmt, arg,
                    retpc >>

Init ==
    /\ pc = "idle"
    /\ retpc = "idle"
    /\ entry = "none"
    /\ invocations = 0
    /\ CustomActionData \in PropertyValues
    /\ propStatus = << >>
    /\ data = << >>
    /\ request_reboot = FALSE
    /\ need_reboot = FALSE
    /\ lastError = ERROR_SUCCESS
    /\ fmt = PlainFmt("")
    /\ arg = 0
    /\ hRecord = 0
    /\ created = 0
    /\ openRecords = {}
    /\ closes = << >>
    /\ logCalls = << >>
    /\ sink = << >>
    /\ drvCalls = << >>
    /\ atomAdds = 0
    /\ atoms = 0
    /\ ret = << >>

(***************************************************************************)
(* log (actions.cpp:10-28)                                                 *)
(***************************************************************************)
\* Mutant of L11_MsiCreateRecord: a record that cannot be created fails the
\* entry point instead of being ignored.
L11_MsiCreateRecord_aborts ==
    /\ pc = "L11"
    /\ \E ok \in BOOLEAN :
         IF ok
           THEN /\ created' = created + 1
                /\ hRecord' = created + 1
                /\ openRecords' = openRecords \cup {created + 1}
                /\ pc' = "L15"
                /\ UNCHANGED << logCalls, lastError, ret >>
           ELSE /\ hRecord' = 0
                /\ logCalls' = Append(logCalls,
                                      [fmt |-> fmt, arg |-> arg,
                                       record |-> 0])
                /\ lastError' = ERROR_OUTOFMEMORY
                /\ ret' = << ERROR_INSTALL_FAILURE >>
                /\ pc' = "idle"
                /\ UNCHANGED << created, openRecords >>
    /\ UNCHANGED << session, locals, fmt, arg, closes, sink, retpc, drvCalls,
                    atomAdds, atoms >>

\* auto hRecord = MsiCreateRecord(0); if (!hRecord) return;
L11_MsiCreateRecord ==
    /\ pc = "L11"
    /\ \E ok \in BOOLEAN :
         IF ok
           THEN /\ created' = created + 1
                /\ hRecord' = created + 1
                /\ openRecords' = openRecords \cup {created + 1}
                /\ pc' = "L15"
                /\ UNCHANGED << logCalls, lastError >>
           ELSE /\ hRecord' = 0
                /\ logCalls' = Append(logCalls,
                                      [fmt |-> fmt, arg |-> arg,
                                       record |-> 0])
                /\ \E e \in {lastError, ERROR_OUTOFMEMORY} : lastError' = e
                /\ pc' = retpc
                /\ UNCHANGED << created, openRecords >>
    /\ UNCHANGED << session, locals, fmt, arg, closes, sink, retpc, drvCalls,
                    atomAdds, atoms, ret >>

\* Lines 15-26: format the message, store it in field 0 of the record and
\* hand the record to the session's message sink.
L15_FormatAndProcessMessage ==
    /\ pc = "L15"
    /\ sink' = Append(sink, [type |-> "INSTALLMESSAGE_INFO",
                             record |-> hRecord,
                             text |-> RecordText(fmt, arg)])
    /\ pc' = "L27"
    /\ UNCHANGED << session, locals, lastError, fmt, arg, hRecord, created,
                    openRecords, closes, logCalls, retpc, drvCalls, atomAdds,
                    atoms, ret >>

\* Mutant of L27_MsiCloseHandle: log returns without closing the record.
L27_MsiCloseHandle_leaks ==
    /\ pc = "L27"
    /\ logCalls' = Append(logCalls,
                          [fmt |-> fmt, arg |-> arg, record |-> hRecord])
    /\ pc' = retpc
    /\ UNCHANGED << session, locals, lastError, fmt, arg, hRecord, created,
                    openRecords, closes, sink, retpc, drvCalls, atomAdds,
                    atoms, ret >>

\* MsiCloseHandle(hRecord); and log returns.
L27_MsiCloseHandle ==
    /\ pc = "L27"
    /\ openRecords' = openRecords \ {hRecord}
    /\ closes' = Append(closes, hRecord)
    /\ logCalls' = Append(logCalls,
                          [fmt |-> fmt, arg |-> arg, record |-> hRecord])
    /\ pc' = retpc
    /\ UNCHANGED << session, locals, lastError, fmt, arg, hRecord, created,
                    sink, retpc, drvCalls, atomAdds, atoms, ret >>

(***************************************************************************)
(* require_reboot (actions.cpp:31-35)                                      *)
(***************************************************************************)
R32_LogRequestingReboot ==
    /\ pc = "R32"
    /\ CallLog(PlainFmt("Requesting reboot"), 0, "R34")
    /\ UNCHANGED << session, locals, lastError, drvCalls, atomAdds, atoms,
                    ret >>

\* GlobalAddAtom(L"WcaDeferredActionRequiresReboot"); the caller is line 75.
R34_GlobalAddAtom ==
    /\ pc = "R34"
    /\ atomAdds' = atomAdds + 1
    /\ atoms' = atoms + 1
    /\ pc' = "I77"
    /\ UNCHANGED << session, locals, lastError, logState, drvCalls, ret >>

(***************************************************************************)
(* InstallDrivers (actions.cpp:53-78)                                      *)
(***************************************************************************)
\* The engine calls InstallDrivers; lines 54-55.
I54_InstallDrivers ==
    /\ BeginInvocation("InstallDrivers")
    /\ \E fail1, fail2 \in BOOLEAN :
         /\ data' = get_property(CustomActionData, fail1, fail2)
         /\ propStatus' = PropertyQueries(CustomActionData, fail1, fail2)
    /\ request_reboot' = FALSE
    /\ pc' = "I58"

I58_LogInstallingVBoxUSBMon ==
    /\ pc = "I58"
    /\ CallLog(PlainFmt("Installing VBoxUSBMon"), 0, "I59")
    /\ UNCHANGED << session, locals, lastError, drvCalls, atomAdds, atoms,
                    ret >>

\* Lines 57, 59 and 63: the call, its test, and the accumulation.
I59_DiInstallDriverVBoxUSBMon ==
    /\ pc = "I59"
    /\ \E out \in DriverOutcomes :
         /\ drvCalls' = Append(drvCalls,
                               DriverCall("DiInstallDriver",
                                          InfPath(data, VBoxUSBMonInf),
                                          DIIRFLAG_FORCE_INF, out))
         /\ need_reboot' = out.reboot
         /\ IF out.ok
              THEN /\ request_reboot' = OrAssign(request_reboot, out.reboot)
                   /\ pc' = "I67"
                   /\ UNCHANGED lastError
              ELSE /\ lastError' = out.err
                   /\ pc' = "I60"
                   /\ UNCHANGED request_reboot
    /\ UNCHANGED << session, data, propStatus, logState, atomAdds, atoms,
                    ret >>

I60_LogErrorVBoxUSBMon ==
    /\ pc = "I60"
    /\ CallLog(HexFmt("ERROR installing VBoxUSBMon: 0x"), lastError, "I61")
    /\ UNCHANGED << session, locals, lastError, drvCalls, atomAdds, atoms,
                    ret >>

\* Mutant of I61_ReturnFailure: the return is missing and control falls
\* through to the second driver.
I61_falls_through ==
    /\ pc = "I61"
    /\ pc' = "I67"
    /\ UNCHANGED << session, locals, lastError, logState, drvCalls, atomAdds,
                    atoms, ret >>

I61_ReturnFailure ==
    /\ pc = "I61"
    /\ ret' = << ERROR_INSTALL_FAILURE >>
    /\ pc' = "idle"
    /\ UNCHANGED << session, locals, lastError, logState, drvCalls, atomAdds,
                    atoms >>

I67_LogInstallingVBoxUSB ==
    /\ pc = "I67"
    /\ CallLog(PlainFmt("Installing VBoxUSB"), 0, "I68")
    /\ UNCHANGED << session, locals, lastError, drvCalls, atomAdds, atoms,
                    ret >>

\* Lines 66, 68 and 72.
I68_DiInstallDriverVBoxUSB ==
    /\ pc = "I68"
    /\ \E out \in DriverOutcomes :
         /\ drvCalls' = Append(drvCalls,
                               DriverCall("DiInstallDriver",
                                          InfPath(data, VBoxUSBInf),
                                          DIIRFLAG_FORCE_INF, out))
         /\ need_reboot' = out.reboot
         /\ IF out.ok
              THEN /\ request_reboot' = OrAssign(request_reboot, out.reboot)
                   /\ pc' = "I74"
                   /\ UNCHANGED lastError
              ELSE /\ lastError' = out.err
                   /\ pc' = "I69"
                   /\ UNCHANGED request_reboot
    /\ UNCHANGED << session, data, propStatus, logState, atomAdds, atoms,
                    ret >>

I69_LogErrorVBoxUSB ==
    /\ pc = "I69"
    /\ CallLog(HexFmt("ERROR installing VBoxUSB: 0x"), lastError, "I70")
    /\ UNCHANGED << session, locals, lastError, drvCalls, atomAdds, atoms,
                    ret >>

\* Mutant of I70_ReturnFailure: the failure of the second driver is treated
\* like a failure in UninstallDrivers ("continue").
I70_continues ==
    /\ pc = "I70"
    /\ pc' = "I74"
    /\ UNCHANGED << session, locals, lastError, logState, drvCalls, atomAdds,
                    atoms, ret >>

I70_ReturnFailure ==
    /\ pc = "I70"
    /\ ret' = << ERROR_INSTALL_FAILURE >>
    /\ pc' = "idle"
    /\ UNCHANGED << session, locals, lastError, logState, drvCalls, atomAdds,
                    atoms >>

\* Mutant of I74_IfRequestReboot: the reboot is requested unconditionally.
I74_always_requires_reboot ==
    /\ pc = "I74"
    /\ pc' = "R32"
    /\ UNCHANGED << session, locals, lastError, logState, drvCalls, atomAdds,
                    atoms, ret >>

\* if (request_reboot) require_reboot(hInstall);
I74_IfRequestReboot ==
    /\ pc = "I74"
    /\ pc' = IF request_reboot THEN "R32" ELSE "I77"
    /\ UNCHANGED << session, locals, lastError, logState, drvCalls, atomAdds,
                    atoms, ret >>

I77_ReturnSuccess ==
    /\ pc = "I77"
    /\ ret' = << ERROR_SUCCESS >>
    /\ pc' = "idle"
    /\ UNCHANGED << session, locals, lastError, logState, drvCalls, atomAdds,
                    atoms >>

(***************************************************************************)
(* UninstallDrivers (actions.cpp:82-103)                                   *)
(***************************************************************************)
U83_UninstallDrivers ==
    /\ BeginInvocation("UninstallDrivers")
    /\ \E fail1, fail2 \in BOOLEAN :
         /\ data' = get_property(CustomActionData, fail1, fail2)
         /\ propStatus' = PropertyQueries(CustomActionData, fail1, fail2)
    /\ UNCHANGED request_reboot
    /\ pc' = "U86"

U86_LogUninstallingVBoxUSB ==
    /\ pc = "U86"
    /\ CallLog(PlainFmt("Uninstalling VBoxUSB"), 0, "U87")
    /\ UNCHANGED << session, locals, lastError, drvCalls, atomAdds, atoms,
                    ret >>

\* Mutant of U87_DiUninstallDriverVBoxUSB: the reboot need of the removal is
\* propagated to the global atom.
U87_propagates_reboot ==
    /\ pc = "U87"
    /\ \E out \in DriverOutcomes :
         /\ drvCalls' = Append(drvCalls,
                               DriverCall("DiUninstallDriver",
                                          InfPath(data, VBoxUSBInf), 0, out))
         /\ need_reboot' = out.reboot
         /\ atomAdds' = IF out.reboot THEN atomAdds + 1 ELSE atomAdds
         /\ atoms' = IF out.reboot THEN atoms + 1 ELSE atoms
         /\ IF out.ok
              THEN /\ pc' = "U95"
                   /\ UNCHANGED lastError
              ELSE /\ lastError' = out.err
                   /\ pc' = "U88"
    /\ UNCHANGED << session, data, propStatus, request_reboot, logState,
                    ret >>

\* Lines 85 and 87; need_reboot is not read afterwards (line 91).
U87_DiUninstallDriverVBoxUSB ==
    /\ pc = "U87"
    /\ \E out \in DriverOutcomes :
         /\ drvCalls' = Append(drvCalls,
                               DriverCall("DiUninstallDriver",
                                          InfPath(data, VBoxUSBInf), 0, out))
         /\ need_reboot' = out.reboot
         /\ IF out.ok
              THEN /\ pc' = "U95"
                   /\ UNCHANGED lastError
              ELSE /\ lastError' = out.err
                   /\ pc' = "U88"
    /\ UNCHANGED << session, data, propStatus, request_reboot, logState,
                    atomAdds, atoms, ret >>

\* Mutant of U88_LogErrorVBoxUSB: after the error is logged the action
\* returns instead of going on to the second removal.
U88_stops_after_error ==
    /\ pc = "U88"
    /\ CallLog(HexFmt("ERROR uninstalling VBoxUSB: 0x"), lastError, "U102")
    /\ UNCHANGED << session, locals, lastError, drvCalls, atomAdds, atoms,
                    ret >>

\* Line 88, then "continue" (line 89).
U88_LogErrorVBoxUSB ==
    /\ pc = "U88"
    /\ CallLog(HexFmt("ERROR uninstalling VBoxUSB: 0x"), lastError, "U95")
    /\ UNCHANGED << session, locals, lastError, drvCalls, atomAdds, atoms,
                    ret >>

U95_LogUninstallingVBoxUSBMon ==
    /\ pc = "U95"
    /\ CallLog(PlainFmt("Uninstalling VBoxUSBMon"), 0, "U96")
    /\ UNCHANGED << session, locals, lastError, drvCalls, atomAdds, atoms,
                    ret >>

\* Lines 94 and 96; need_reboot is not read afterwards (line 100).
U96_DiUninstallDriverVBoxUSBMon ==
    /\ pc = "U96"
    /\ \E out \in DriverOutcomes :
         /\ drvCalls' = Append(drvCalls,
                               DriverCall("DiUninstallDriver",
                                          InfPath(data, VBoxUSBMonInf), 0,
                                          out))
         /\ need_reboot' = out.reboot
         /\ IF out.ok
              THEN /\ pc' = "U102"
                   /\ UNCHANGED lastError
              ELSE /\ lastError' = out.err
                   /\ pc' = "U97"
    /\ UNCHANGED << session, data, propStatus, request_reboot, logState,
                    atomAdds, atoms, ret >>

\* Line 97, then "continue" (line 98).
U97_LogErrorVBoxUSBMon ==
    /\ pc = "U97"
    /\ CallLog(HexFmt("ERROR uninstalling VBoxUSBMon: 0x"), lastError, "U102")
    /\ UNCHANGED << session, locals, lastError, drvCalls, atomAdds, atoms,
                    ret >>

\* Mutant of U102_ReturnSuccess: a failed removal fails the action, as a
\* failed installation does.
U102_reports_failure ==
    /\ pc = "U102"
    /\ ret' = IF \E i \in 1..Len(drvCalls) : ~drvCalls[i].ok
                THEN << ERROR_INSTALL_FAILURE >> ELSE << ERROR_SUCCESS >>
    /\ pc' = "idle"
    /\ UNCHANGED << session, locals, lastError, logState, drvCalls, atomAdds,
                    atoms >>

U102_ReturnSuccess ==
    /\ pc = "U102"
    /\ ret' = << ERROR_SUCCESS >>
    /\ pc' = "idle"
    /\ UNCHANGED << session, locals, lastError, logState, drvCalls, atomAdds,
                    atoms >>

(***************************************************************************)
(* The specification.                                                      *)
(***************************************************************************)
Next ==
    \/ I54_InstallDrivers
    \/ I58_LogInstallingVBoxUSBMon
    \/ I59_DiInstallDriverVBoxUSBMon
    \/ I60_LogErrorVBoxUSBMon
    \/ I61_ReturnFailure
    \/ I67_LogInstallingVBoxUSB
    \/ I68_DiInstallDriverVBoxUSB
    \/ I69_LogErrorVBoxUSB
    \/ I70_ReturnFailure
    \/ I74_IfRequestReboot
    \/ I77_ReturnSuccess
    \/ R32_LogRequestingReboot
    \/ R34_GlobalAddAtom
    \/ U83_UninstallDrivers
    \/ U86_LogUninstallingVBoxUSB
    \/ U87_DiUninstallDriverVBoxUSB
    \/ U88_LogErrorVBoxUSB
    \/ U95_LogUninstallingVBoxUSBMon
    \/ U96_DiUninstallDriverVBoxUSBMon
    \/ U97_LogErrorVBoxUSBMon
    \/ U102_ReturnSuccess
    \/ L11_MsiCreateRecord
    \/ L15_FormatAndProcessMessage
    \/ L27_MsiCloseHandle

Spec == Init /\ [][Next]_vars

TypeOK ==
    /\ invocations \in 0..MaxInvocations
    /\ data \in PropertyValues
    /\ ret \in {<< >>, << ERROR_SUCCESS >>, << ERROR_INSTALL_FAILURE >>}

(***************************************************************************)
(* Vocabulary of the properties.                                           *)
(***************************************************************************)
\* The invocation of entry point name has returned.
Returned(name) == pc = "idle" /\ entry = name /\ ret # << >>

Calls == 1..Len(drvCalls)
Installing == entry = "InstallDrivers"
Uninstalling == entry = "UninstallDrivers"

DriverName(call) ==
    IF call.inf.rel = VBoxUSBInf THEN "VBoxUSB" ELSE "VBoxUSBMon"

\* The eight digits a reader of the installer log sees for each error code,
\* written out by hand.
CodeAsLogged(code) ==
    CASE code = ERROR_ACCESS_DENIED -> "00000005"
      [] code = ERROR_INVALID_FLAGS -> "000003ec"
      [] OTHER -> "????????"

\* The line of the installer log that reports the failure of a driver call.
ErrorLine(verb, call) ==
    "CustomActions: ERROR " \o verb \o " " \o DriverName(call) \o ": 0x"
        \o CodeAsLogged(call.err)

\* The format and argument log is called with to report that failure.
ErrorLogged(verb, call, lc) ==
    /\ lc.fmt = HexFmt("ERROR " \o verb \o " " \o DriverName(call) \o ": 0x")
    /\ lc.arg = call.err

\* A log call reached the message sink with the given text, unless its
\* message record could not be created.
Delivered(lc, text) ==
    lc.record # 0 =>
        \E j \in 1..Len(sink) : sink[j].record = lc.record
                                  /\ sink[j].text = text

(***************************************************************************)
(* C1 as stated: whenever a driver-install call of an InstallDrivers       *)
(* invocation reported reboot need, the invocation raised the reboot       *)
(* marker exactly once.  (Refuted: the first call reports reboot need and  *)
(* the second fails.)                                                      *)
(***************************************************************************)
C1_AsStated ==
    (Returned("InstallDrivers")
       /\ \E i \in Calls : drvCalls[i].ok /\ drvCalls[i].reboot)
        => atomAdds = 1

(***************************************************************************)
(* C1 amended: when both driver-install calls succeed and at least one of  *)
(* them reports reboot need, whichever it is, the reboot marker is raised  *)
(* exactly once during the invocation; and it is never raised more than    *)
(* once.                                                                   *)
(***************************************************************************)
C1_RebootRaisedOnce ==
    /\ Installing => atomAdds <= 1
    /\ (/\ Returned("InstallDrivers")
        /\ Len(drvCalls) = 2
        /\ \A i \in Calls : drvCalls[i].ok
        /\ \E i \in Calls : drvCalls[i].reboot)
         => atomAdds = 1

C1_Witness ==
    /\ Returned("InstallDrivers")
    /\ Len(drvCalls) = 2
    /\ drvCalls[1].ok /\ drvCalls[1].reboot
    /\ drvCalls[2].ok /\ ~drvCalls[2].reboot
    /\ atomAdds = 1

(***************************************************************************)
(* C2: once the first driver-install call (VBoxUSBMon) has failed, no      *)
(* second driver call is made in that invocation, and the invocation       *)
(* returns ERROR_INSTALL_FAILURE.                                          *)
(***************************************************************************)
C2_FirstFailureStops ==
    (Installing /\ Len(drvCalls) >= 1 /\ ~drvCalls[1].ok)
        => /\ Len(drvCalls) = 1
           /\ DriverName(drvCalls[1]) = "VBoxUSBMon"
           /\ pc = "idle" => ret = << ERROR_INSTALL_FAILURE >>

C2_Witness ==
    /\ Returned("InstallDrivers")
    /\ Len(drvCalls) = 1
    /\ ~drvCalls[1].ok

(***************************************************************************)
(* C3: InstallDrivers is fail-fast.  A failed driver-install call is the   *)
(* last driver call of the invocation; the last thing the invocation does  *)
(* before returning ERROR_INSTALL_FAILURE is to log the error message with *)
(* the call's OS error code (the message reaches the sink whenever its     *)
(* record could be created); the marker is not raised; and InstallDrivers  *)
(* never calls DiUninstallDriver.                                          *)
(***************************************************************************)
C3_InstallFailFast ==
    /\ Installing =>
         \A i \in Calls :
            /\ drvCalls[i].fn = "DiInstallDriver"
            /\ ~drvCalls[i].ok => i = Len(drvCalls)
    /\ (Returned("InstallDrivers") /\ \E i \in Calls : ~drvCalls[i].ok)
         => LET failed == drvCalls[Len(drvCalls)]
                last == logCalls[Len(logCalls)]
            IN  /\ ret = << ERROR_INSTALL_FAILURE >>
                /\ logCalls # << >>
                /\ ErrorLogged("installing", failed, last)
                /\ Delivered(last, ErrorLine("installing", failed))
                /\ last.record # 0 => sink[Len(sink)].record = last.record
                /\ atomAdds = 0

C3_Witness ==
    /\ Returned("InstallDrivers")
    /\ Len(drvCalls) = 2
    /\ drvCalls[1].ok
    /\ ~drvCalls[2].ok
    /\ drvCalls[2].err = ERROR_INVALID_FLAGS
    /\ logCalls[Len(logCalls)].record # 0
    /\ sink[Len(sink)].text
          = "CustomActions: ERROR installing VBoxUSB: 0x000003ec"

(***************************************************************************)
(* C4: UninstallDrivers returns ERROR_SUCCESS whatever the two removal     *)
(* calls answered, and for every removal call that failed it has logged    *)
(* the error message with that call's OS error code (the message reaches   *)
(* the sink whenever its record could be created).                         *)
(***************************************************************************)
C4_UninstallAlwaysSucceeds ==
    Returned("UninstallDrivers")
        => /\ ret = << ERROR_SUCCESS >>
           /\ \A i \in Calls :
                ~drvCalls[i].ok =>
                    \E k \in 1..Len(logCalls) :
                        /\ ErrorLogged("uninstalling", drvCalls[i],
                                       logCalls[k])
                        /\ Delivered(logCalls[k],
                                     ErrorLine("uninstalling", drvCalls[i]))

C4_Witness ==
    /\ Returned("UninstallDrivers")
    /\ ret = << ERROR_SUCCESS >>
    /\ Len(drvCalls) = 2
    /\ ~drvCalls[1].ok /\ drvCalls[1].err = ERROR_ACCESS_DENIED
    /\ ~drvCalls[2].ok /\ drvCalls[2].err = ERROR_INVALID_FLAGS
    /\ Len(sink) = 4
    /\ sink[2].text = "CustomActions: ERROR uninstalling VBoxUSB: 0x00000005"
    /\ sink[4].text
          = "CustomActions: ERROR uninstalling VBoxUSBMon: 0x000003ec"

(***************************************************************************)
(* C5: as long as every driver-install call of the invocation succeeded    *)
(* without reporting reboot need, the reboot marker is not raised; when    *)
(* both calls did so, the invocation returns ERROR_SUCCESS.                *)
(***************************************************************************)
C5_NoRebootNoMarker ==
    (Installing /\ \A i \in Calls : drvCalls[i].ok /\ ~drvCalls[i].reboot)
        => /\ atomAdds = 0
           /\ pc = "idle" => Len(drvCalls) = 2 /\ ret = << ERROR_SUCCESS >>

C5_Witness ==
    /\ Returned("InstallDrivers")
    /\ Len(drvCalls) = 2
    /\ \A i \in Calls : drvCalls[i].ok /\ ~drvCalls[i].reboot
    /\ atomAdds = 0
    /\ ret = << ERROR_SUCCESS >>

(***************************************************************************)
(* C6: get_property returns the empty string when the property is unset,   *)
(* when the first query does not answer ERROR_MORE_DATA, or when the       *)
(* second does not answer ERROR_SUCCESS; otherwise it returns the stored   *)
(* string: the same length, the same characters, no terminator.            *)
(***************************************************************************)
C6_PropertyReader ==
    entry # "none"
        => /\ CustomActionData = << >> => data = << >>
           /\ propStatus # << ERROR_MORE_DATA, ERROR_SUCCESS >>
                => data = << >>
           /\ propStatus = << ERROR_MORE_DATA, ERROR_SUCCESS >>
                => /\ Len(data) = Len(CustomActionData)
                   /\ \A i \in 1..Len(data) :
                         data[i] = CustomActionData[i] /\ data[i] # NUL

C6_Witness ==
    /\ entry # "none"
    /\ propStatus = << ERROR_MORE_DATA, ERROR_SUCCESS >>
    /\ Len(CustomActionData) >= 2
    /\ \E i \in 1..Len(CustomActionData) : CustomActionData[i] = 92
    /\ \E i \in 1..Len(CustomActionData) : CustomActionData[i] = 233
    /\ data = CustomActionData

(***************************************************************************)
(* C7: when an invocation of either entry point has returned, on the       *)
(* failure paths of InstallDrivers too, no message record is open and      *)
(* every record created during the invocation was closed exactly once.     *)
(***************************************************************************)
C7_RecordsReleased ==
    (pc = "idle")
        => /\ openRecords = {}
           /\ Len(closes) = created
           /\ \A h \in 1..created :
                 Cardinality({k \in 1..Len(closes) : closes[k] = h}) = 1

C7_Witness ==
    /\ Returned("InstallDrivers")
    /\ ret = << ERROR_INSTALL_FAILURE >>
    /\ created = 3
    /\ closes = << 1, 2, 3 >>
    /\ openRecords = {}

(***************************************************************************)
(* C8: UninstallDrivers attempts each removal exactly once, VBoxUSB first  *)
(* and VBoxUSBMon second, the second whether or not the first succeeded;   *)
(* InstallDrivers installs in the opposite order, VBoxUSBMon then VBoxUSB. *)
(***************************************************************************)
C8_RemovalOrder ==
    /\ Uninstalling
         => /\ Len(drvCalls) <= 2
            /\ \A i \in Calls :
                  /\ drvCalls[i].fn = "DiUninstallDriver"
                  /\ drvCalls[i].inf
                        = InfPath(data, IF i = 1 THEN VBoxUSBInf
                                                 ELSE VBoxUSBMonInf)
            /\ pc = "idle" => Len(drvCalls) = 2
    /\ Installing
         => /\ Len(drvCalls) <= 2
            /\ \A i \in Calls :
                  drvCalls[i].inf
                     = InfPath(data, IF i = 1 THEN VBoxUSBMonInf
                                              ELSE VBoxUSBInf)

C8_Witness ==
    /\ Returned("UninstallDrivers")
    /\ Len(drvCalls) = 2
    /\ ~drvCalls[1].ok
    /\ DriverName(drvCalls[1]) = "VBoxUSB"
    /\ DriverName(drvCalls[2]) = "VBoxUSBMon"

(***************************************************************************)
(* C9: a log call whose message record cannot be created submits nothing   *)
(* to the message sink, and what the entry point does otherwise - the      *)
(* driver calls it makes, whether it raises the reboot marker, the status  *)
(* it returns - is what the answers of the driver calls alone determine,   *)
(* the same as when every record is created.                               *)
(***************************************************************************)
\* The messages of the log calls whose record was created, in order.
RECURSIVE TextsOfCreated(_)
TextsOfCreated(lcs) ==
    IF lcs = << >> THEN << >>
    ELSE IF Head(lcs).record = 0 THEN TextsOfCreated(Tail(lcs))
    ELSE << "CustomActions: " \o Head(lcs).fmt.lit
              \o (IF Head(lcs).fmt.conv = ""
                    THEN "" ELSE CodeAsLogged(Head(lcs).arg)) >>
           \o TextsOfCreated(Tail(lcs))

C9_LogFailuresSwallowed ==
    /\ (pc = "idle" /\ entry # "none")
         => /\ Len(sink) = Len(TextsOfCreated(logCalls))
            /\ \A j \in 1..Len(sink) :
                  sink[j].text = TextsOfCreated(logCalls)[j]
    /\ Returned("InstallDrivers")
         => /\ Len(drvCalls) >= 1
            /\ Len(drvCalls) = IF drvCalls[1].ok THEN 2 ELSE 1
            /\ ret = IF \A i \in Calls : drvCalls[i].ok
                       THEN << ERROR_SUCCESS >>
                       ELSE << ERROR_INSTALL_FAILURE >>
            /\ atomAdds = IF /\ \A i \in Calls : drvCalls[i].ok
                             /\ \E i \in Calls : drvCalls[i].reboot
                            THEN 1 ELSE 0
    /\ Returned("UninstallDrivers")
         => /\ Len(drvCalls) = 2
            /\ ret = << ERROR_SUCCESS >>
            /\ atomAdds = 0

C9_Witness ==
    /\ Returned("InstallDrivers")
    /\ \A k \in 1..Len(logCalls) : logCalls[k].record = 0
    /\ sink = << >>
    /\ Len(drvCalls) = 2
    /\ atomAdds = 1
    /\ ret = << ERROR_SUCCESS >>

(***************************************************************************)
(* C10: the reboot marker is raised only by an InstallDrivers invocation   *)
(* that goes on to return ERROR_SUCCESS: never in one that returns         *)
(* ERROR_INSTALL_FAILURE, even if its first driver call succeeded and      *)
(* reported reboot need, and never in UninstallDrivers, even if a removal  *)
(* call reports reboot need.                                               *)
(***************************************************************************)
C10_MarkerOnlyOnSuccess ==
    /\ atomAdds > 0
         => /\ Installing
            /\ pc \in {"I77", "idle"}
            /\ \A i \in Calls : drvCalls[i].ok
            /\ pc = "idle" => ret = << ERROR_SUCCESS >>
    /\ (Returned("InstallDrivers") /\ ret = << ERROR_INSTALL_FAILURE >>)
         => atomAdds = 0
    /\ Uninstalling => atomAdds = 0

C10_Witness ==
    /\ Returned("InstallDrivers")
    /\ ret = << ERROR_INSTALL_FAILURE >>
    /\ Len(drvCalls) = 2
    /\ drvCalls[1].ok /\ drvCalls[1].reboot
    /\ ~drvCalls[2].ok
    /\ atomAdds = 0

=============================================================================
